---- MODULE Spec2Model ----
(***************************************************************************)
(* A model of src/qbtui.py (class QBittorrentTUI): the scrollable          *)
(* selector, the bounded renderer, the progress indicator and the tracker  *)
(* aggregator, each as a state machine under its own specification.        *)
(***************************************************************************)
EXTENDS Integers, Sequences, FiniteSets, TLC

\* ------------------------------------------------------------------ bounds
MaxItems == 5
MaxHeight == 7
RunCap == 9
MaxDrift == 3
MaxTextLen == 4
MaxWidth == 3
MaxWrites == 6
MaxRows == 3
MaxTotal == 2
MaxBar == 3
MaxMessage == 2
MaxTorrents == 3

\* ----------------------------------------------------------------- helpers
Max(a, b) == IF a >= b THEN a ELSE b
Min(a, b) == IF a <= b THEN a ELSE b

\* Python's s[lo:hi] on a list (0-based, negative indices count from the end,
\* both ends clamped to the list), on a 1-based TLA+ sequence.
PyIndex(n, i) == IF i < 0 THEN Max(0, i + n) ELSE Min(n, i)
PySlice(s, lo, hi) ==
    LET a == PyIndex(Len(s), lo)
        b == PyIndex(Len(s), hi)
    IN  IF a < b THEN SubSeq(s, a + 1, b) ELSE <<>>

\* ------------------------------------------------- Python float arithmetic
\* The quotient of two positive integers below 2^14 as an IEEE-754 double:
\* [exp, d], standing for 2^exp * (1 + d[1]/B + d[2]/B^2 + d[3]/B^3 +
\* d[4]/B^4) with B = 2^13, which are the 52 bits after the leading 1.
LimbBits == 13
B == 2 ^ LimbBits

\* The e with 2^e <= c / t < 2^(e+1).
QuotientExp(c, t) ==
    CHOOSE e \in -14..14 :
        IF e >= 0 THEN t * (2 ^ e) <= c /\ c < t * (2 ^ (e + 1))
        ELSE t <= c * (2 ^ (0 - e)) /\ c * (2 ^ (0 - e)) < 2 * t

\* The limbs <<d1, d2, d3, d4>> plus one, carried from the last limb up;
\* the result [exp, d] takes the carry out of d1 into the exponent.
LimbsPlusOne(e, d) ==
    LET s4 == d[4] + 1
        s3 == d[3] + (s4 \div B)
        s2 == d[2] + (s3 \div B)
        s1 == d[1] + (s2 \div B)
    IN  IF s1 >= B
        THEN [exp |-> e + 1, d |-> <<0, 0, 0, 0>>]
        ELSE [exp |-> e, d |-> <<s1, s2 % B, s3 % B, s4 % B>>]

\* float(c) / float(t) for 0 < c, t < 2^14 (line 159): long division in
\* base B, then round to nearest, ties to even.
FloatDiv(c, t) ==
    LET e   == QuotientExp(c, t)
        num == IF e >= 0 THEN c ELSE c * (2 ^ (0 - e))
        den == IF e >= 0 THEN t * (2 ^ e) ELSE t
        r0  == num - den
        d1  == (r0 * B) \div den
        r1  == (r0 * B) % den
        d2  == (r1 * B) \div den
        r2  == (r1 * B) % den
        d3  == (r2 * B) \div den
        r3  == (r2 * B) % den
        d4  == (r3 * B) \div den
        r4  == (r3 * B) % den
        up  == 2 * r4 > den \/ (2 * r4 = den /\ d4 % 2 = 1)
    IN  IF up THEN LimbsPlusOne(e, <<d1, d2, d3, d4>>)
        ELSE [exp |-> e, d |-> <<d1, d2, d3, d4>>]

\* The k with 2^k <= n < 2^(k+1), for 1 <= n < 2^14.
BitLength(n) == CHOOSE k \in 0..13 : 2 ^ k <= n /\ n < 2 ^ (k + 1)

\* int(n * f) for an integer 1 <= n < 128 and a double f = [exp, d] (lines
\* 160 and 162): the exact product in limbs, rounded to 53 bits (nearest,
\* ties to even), then truncated towards zero.
IntOfProduct(n, f) ==
    LET p4   == f.d[4] * n
        p3   == f.d[3] * n + (p4 \div B)
        p2   == f.d[2] * n + (p3 \div B)
        p1   == f.d[1] * n + (p2 \div B)
        top  == n + (p1 \div B)
        l4   == p4 % B
        k    == BitLength(top)
        drop == l4 % (2 ^ k)
        half == IF k = 0 THEN 0 ELSE 2 ^ (k - 1)
        up   == k > 0 /\ (drop > half \/
                          (drop = half /\ (l4 \div (2 ^ k)) % 2 = 1))
        q4   == (l4 - drop) + (IF up THEN 2 ^ k ELSE 0)
        q3   == (p3 % B) + (q4 \div B)
        q2   == (p2 % B) + (q3 \div B)
        q1   == (p1 % B) + (q2 \div B)
        qtop == top + (q1 \div B)
    IN  IF f.exp >= 0
        THEN qtop * (2 ^ f.exp) + (((q1 % B) * (2 ^ f.exp)) \div B)
        ELSE qtop \div (2 ^ (0 - f.exp))

\* int(n * percentage), percentage being what lines 157-159 make of current
\* and total: the integer 0 when total is 0, their float quotient otherwise.
FloatScaled(n, current, total) ==
    IF total = 0 \/ current = 0 \/ n = 0 THEN 0
    ELSE IntOfProduct(n, FloatDiv(current, total))

\* FloatScaled on the arguments the model draws, computed once.
ScaledCache ==
    [n \in (0..(MaxBar + 1)) \cup {40, 100},
     current \in 0..(MaxTotal + MaxTorrents + 1),
     total \in 0..(MaxTotal + MaxTorrents + 1) |->
        FloatScaled(n, current, total)]

ScaledPart(n, current, total) ==
    IF <<n, current, total>> \in DOMAIN ScaledCache
    THEN ScaledCache[n, current, total]
    ELSE FloatScaled(n, current, total)

\* ---------------------------------------------------------------- variables
VARIABLES
    \* scrollable_select
    pc,             \* "call" | "draw" | "getch" | "done" | "idle"
    items,          \* the list handed to scrollable_select
    surfHeight,     \* what stdscr.getmaxyx() answers now
    height,         \* the local read once at line 367
    max_lines,      \* the local of line 383
    selected_idx,
    top_line,
    visible_items,  \* the slice drawn by the last redraw
    result,         \* the returned value, "none" before the return
    \* observers of the key history of one call
    keyRead,        \* a getch has happened in this call
    drawn,          \* a redraw has happened in this call
    lastKey,        \* the last key read, "none" before the first
    prevHome,       \* the key before the last one was home
    updownOnly,     \* every key read so far was up or down
    npageRun        \* n >= 0: exactly n keys were read, all page-down; else -1

selVars == <<pc, items, surfHeight, height, max_lines, selected_idx, top_line,
             visible_items, result, keyRead, drawn, lastKey, prevHome,
             updownOnly, npageRun>>

VARIABLES
    \* safe_addstr
    rpc,            \* "idle" | "call" | "for" | "while" | "else" | "tail" |
                    \* "refresh" | "done" | "raised"
    text,           \* the text argument, a sequence of characters
    wrap,
    start_newline,
    width,          \* the local read at line 108
    lines,          \* the lines of text.splitlines() still to come
    line,           \* the local of lines 112, 121, 130
    writes,         \* the arguments of the stdscr.addstr calls so far
    rejected,       \* how many of them the surface rejected (curses.error)
    refreshed       \* stdscr.refresh() of line 142 has run

renVars == <<rpc, text, wrap, start_newline, width, lines, line, writes,
             rejected, refreshed>>

VARIABLES
    \* the surface (stdscr) as draw_progress_bar uses it
    scr,            \* [h, w, rows, y, x, err]: geometry, the rows' characters
                    \* (blank beyond a row's length), the cursor, and whether
                    \* a call on it has raised curses.error
    \* draw_progress_bar
    ppc,            \* "idle" | "ready" | "raised"
    shown           \* the arguments and locals of the last call

progVars == <<scr, ppc, shown>>

VARIABLES
    \* aggregate_trackers_for_each_torrent
    apc,            \* "idle" | "call" | "draw" | "lookup" | "return" |
                    \* "done" | "raised"
    torrents,       \* the argument: a sequence of [hash, name]
    idx,            \* the loop counter of line 479
    tracker_map,    \* the dict of line 478: its items in insertion order,
                    \* each [url, hashes]
    returned,       \* the returned dict, "none" before the return
    \* observers of one call
    lookups,        \* what get_torrent_trackers returned, call by call
    draws           \* the progress draws: [current, total, completed], the
                    \* last being the number of lookups that had returned

aggVars == <<apc, torrents, idx, tracker_map, returned, lookups, draws>>

VARIABLES
    \* remove_tracker and add_tracker
    wpc,            \* "idle" | "call" | "aggregate" | "select" | "url" |
                    \* "confirm" | "mutate" | "finish" | "done" | "raised"
    op,             \* "remove" | "add"
    trackers,       \* the sorted keys (lines 528 and 640)
    tracker_lines,  \* the lines handed to scrollable_select
    choice_idx,
    selected_tracker,
    associated_torrents,
    tracker_to_add,
    widx,           \* the loop counter of lines 567 and 695
    \* observers of one call
    posts,          \* the removeTrackers / addTrackers requests issued
    first_failure,  \* which of them was the first to fail, 0 for none
    notice,         \* the last message written for the operator
    confirmation    \* the last answer to "(yes/y or no/n)", as compared

wfVars == <<wpc, op, trackers, tracker_lines, choice_idx, selected_tracker,
            associated_torrents, tracker_to_add, widx, posts,
            first_failure, notice, confirmation>>

vars == <<selVars, renVars, progVars, aggVars, wfVars>>

\* What each component leaves alone.
NotSelector == <<renVars, progVars, aggVars, wfVars>>
NotRenderer == <<selVars, progVars, aggVars, wfVars>>
NotProgress == <<selVars, renVars, aggVars, wfVars>>
NotAggregator == <<selVars, renVars, wfVars>>

\* -------------------------------------------------------- scrollable_select
CancelKeys  == {"q", "esc"}
ConfirmKeys == {"KEY_ENTER", "lf", "cr"}
UpKeys      == {"KEY_UP", "k"}
DownKeys    == {"KEY_DOWN", "j"}
OtherKeys   == {"x", "KEY_RESIZE"}

Heights == 1..MaxHeight

ItemLists == {[i \in 1..n |-> i] : n \in 0..MaxItems}

SelectIdle ==
    /\ pc = "idle" /\ items = <<>> /\ surfHeight = 1 /\ height = 0
    /\ max_lines = 0 /\ selected_idx = 0 /\ top_line = 0
    /\ visible_items = <<>> /\ result = "none"
    /\ keyRead = FALSE /\ drawn = FALSE /\ lastKey = "none"
    /\ prevHome = FALSE /\ updownOnly = TRUE /\ npageRun = 0

RenderIdle ==
    /\ rpc = "idle" /\ text = <<>> /\ wrap = TRUE /\ start_newline = TRUE
    /\ width = 0 /\ lines = <<>> /\ line = <<>> /\ writes = <<>>
    /\ rejected = 0 /\ refreshed = FALSE

\* A surface of h rows and w columns, blank, the cursor at the origin.
BlankSurface(h, w) ==
    [h |-> h, w |-> w, rows |-> [r \in 0..(h - 1) |-> <<>>],
     y |-> 0, x |-> 0, err |-> FALSE]

NoCall == [current |-> 0, total |-> 0, message |-> <<>>, bar_length |-> 0,
           filled_length |-> 0, percent_text |-> <<>>, bar_line |-> <<>>]

ProgressIdle ==
    /\ ppc = "idle" /\ scr = BlankSurface(1, 1) /\ shown = NoCall

AggregatorIdle ==
    /\ apc = "idle" /\ torrents = <<>> /\ idx = 0 /\ tracker_map = <<>>
    /\ returned = "none" /\ lookups = <<>> /\ draws = <<>>

WorkflowIdle ==
    /\ wpc = "idle" /\ op = "none" /\ trackers = <<>> /\ tracker_lines = <<>>
    /\ choice_idx = -1 /\ selected_tracker = "" /\ associated_torrents = <<>>
    /\ tracker_to_add = <<>> /\ widx = 0 /\ posts = <<>> /\ notice = "none"
    /\ first_failure = 0 /\ confirmation = <<>>

SelectCalled(its, h) ==
    /\ pc = "call" /\ items = its /\ surfHeight = h /\ height = 0
    /\ max_lines = 0 /\ selected_idx = 0 /\ top_line = 0
    /\ visible_items = <<>> /\ result = "none"
    /\ keyRead = FALSE /\ drawn = FALSE /\ lastKey = "none"
    /\ prevHome = FALSE /\ updownOnly = TRUE /\ npageRun = 0

SelectInit ==
    /\ \E its \in ItemLists, h \in Heights : SelectCalled(its, h)
    /\ RenderIdle
    /\ ProgressIdle
    /\ AggregatorIdle
    /\ WorkflowIdle

\* The terminal is resized: the surface answers another height from now on.
Resize ==
    /\ pc \in {"draw", "getch"}
    /\ \E h \in Heights : h # surfHeight /\ surfHeight' = h
    /\ UNCHANGED <<pc, items, height, max_lines, selected_idx, top_line,
                   visible_items, result, keyRead, drawn, lastKey, prevHome,
                   updownOnly, npageRun>>
    /\ UNCHANGED NotSelector

\* Enter without the empty-list return of lines 370-371.
EnterNoEmptyCheck ==
    /\ pc = "call"
    /\ height' = surfHeight
    /\ selected_idx' = 0
    /\ top_line' = 0
    /\ pc' = "draw"
    /\ UNCHANGED <<result, items, surfHeight, max_lines, visible_items,
                   keyRead, drawn, lastKey, prevHome, updownOnly, npageRun>>
    /\ UNCHANGED NotSelector

\* Lines 366-374: read the geometry, bail out on an empty list, else start
\* the loop at the first item.
Enter ==
    /\ pc = "call"
    /\ height' = surfHeight
    /\ IF items = <<>>
       THEN /\ result' = -1
            /\ pc' = "done"
            /\ UNCHANGED <<selected_idx, top_line>>
       ELSE /\ selected_idx' = 0
            /\ top_line' = 0
            /\ pc' = "draw"
            /\ UNCHANGED result
    /\ UNCHANGED <<items, surfHeight, max_lines, visible_items, keyRead,
                   drawn, lastKey, prevHome, updownOnly, npageRun>>
    /\ UNCHANGED NotSelector

\* Lines 377-406: clear, title, the visible rows, the help line.
Redraw ==
    /\ pc = "draw"
    /\ max_lines' = height - 4
    /\ visible_items' = PySlice(items, top_line, top_line + (height - 4))
    /\ drawn' = TRUE
    /\ pc' = "getch"
    /\ UNCHANGED <<items, surfHeight, height, selected_idx, top_line, result,
                   keyRead, lastKey, prevHome, updownOnly, npageRun>>
    /\ UNCHANGED NotSelector

\* What every key read does to the observers (line 409).
ReadKey(key) ==
    /\ pc = "getch"
    /\ keyRead' = TRUE
    /\ lastKey' = key
    /\ prevHome' = (lastKey = "KEY_HOME")
    /\ updownOnly' = (updownOnly /\ key \in UpKeys \cup DownKeys)
    /\ npageRun' = IF key = "KEY_NPAGE" /\ npageRun >= 0 /\ npageRun < RunCap
                   THEN npageRun + 1 ELSE -1
    /\ UNCHANGED <<items, surfHeight, height, max_lines, visible_items, drawn>>
    /\ UNCHANGED NotSelector

\* Lines 411-413.
Cancel ==
    /\ \E key \in CancelKeys : ReadKey(key)
    /\ result' = -1
    /\ pc' = "done"
    /\ UNCHANGED <<selected_idx, top_line>>

\* Lines 414-416.
Confirm ==
    /\ \E key \in ConfirmKeys : ReadKey(key)
    /\ result' = selected_idx
    /\ pc' = "done"
    /\ UNCHANGED <<selected_idx, top_line>>

\* With max_lines < 0 the page keys move the index away from the list without
\* limit: the model follows it MaxDrift places past either end.
InReach(sel) == sel >= 0 - MaxDrift /\ sel <= Len(items) - 1 + MaxDrift

\* Lines 419-422 (and 430-432 with step = max_lines).
MoveUp(step) ==
    LET sel == Max(0, selected_idx - step)
    IN  /\ InReach(sel)
        /\ selected_idx' = sel
        /\ top_line' = IF sel < top_line THEN sel ELSE top_line

\* MoveDown scrolling one row short (line 428 without its "+ 1").
MoveDownShort(step) ==
    LET sel == Min(Len(items) - 1, selected_idx + step)
    IN  /\ InReach(sel)
        /\ selected_idx' = sel
        /\ top_line' = IF sel >= top_line + max_lines
                       THEN sel - max_lines ELSE top_line

\* Lines 425-428 (and 434-436 with step = max_lines).
MoveDown(step) ==
    LET sel == Min(Len(items) - 1, selected_idx + step)
    IN  /\ InReach(sel)
        /\ selected_idx' = sel
        /\ top_line' = IF sel >= top_line + max_lines
                       THEN sel - max_lines + 1 ELSE top_line

\* Lines 417-422.
Up ==
    /\ \E key \in UpKeys : ReadKey(key)
    /\ MoveUp(1)
    /\ pc' = "draw"
    /\ UNCHANGED result

\* Lines 423-428.
Down ==
    /\ \E key \in DownKeys : ReadKey(key)
    /\ MoveDown(1)
    /\ pc' = "draw"
    /\ UNCHANGED result

\* PageUp without the scroll of lines 431-432.
PageUpNoScroll ==
    /\ ReadKey("KEY_PPAGE")
    /\ selected_idx' = Max(0, selected_idx - max_lines)
    /\ InReach(selected_idx')
    /\ UNCHANGED top_line
    /\ pc' = "draw"
    /\ UNCHANGED result

\* Lines 429-432.
PageUp ==
    /\ ReadKey("KEY_PPAGE")
    /\ MoveUp(max_lines)
    /\ pc' = "draw"
    /\ UNCHANGED result

\* PageDown that pins the viewport's top to the selection.
PageDownTopAtSelection ==
    /\ ReadKey("KEY_NPAGE")
    /\ LET sel == Min(Len(items) - 1, selected_idx + max_lines)
       IN  /\ selected_idx' = sel
           /\ top_line' = IF sel >= top_line + max_lines THEN sel ELSE top_line
    /\ pc' = "draw"
    /\ UNCHANGED result

\* Lines 433-436.
PageDown ==
    /\ ReadKey("KEY_NPAGE")
    /\ MoveDown(max_lines)
    /\ pc' = "draw"
    /\ UNCHANGED result

\* Lines 437-439.
Home ==
    /\ ReadKey("KEY_HOME")
    /\ selected_idx' = 0
    /\ top_line' = 0
    /\ pc' = "draw"
    /\ UNCHANGED result

\* End without the clamp of line 443 at 0.
EndNoClamp ==
    /\ ReadKey("KEY_END")
    /\ selected_idx' = Len(items) - 1
    /\ top_line' = Len(items) - max_lines
    /\ pc' = "draw"
    /\ UNCHANGED result

\* End putting the last item on the viewport's first row.
EndTopAtSelection ==
    /\ ReadKey("KEY_END")
    /\ selected_idx' = Len(items) - 1
    /\ top_line' = Len(items) - 1
    /\ pc' = "draw"
    /\ UNCHANGED result

\* Lines 440-443.
End ==
    /\ ReadKey("KEY_END")
    /\ selected_idx' = Len(items) - 1
    /\ top_line' = Max(0, Len(items) - max_lines)
    /\ pc' = "draw"
    /\ UNCHANGED result

\* No branch of lines 411-443 matches: the loop goes round.
Ignore ==
    /\ \E key \in OtherKeys : ReadKey(key)
    /\ pc' = "draw"
    /\ UNCHANGED <<selected_idx, top_line, result>>

KeyStep ==
    \/ Cancel \/ Confirm \/ Up \/ Down \/ PageUp \/ PageDown
    \/ Home \/ End \/ Ignore

SelectNext == Enter \/ Redraw \/ KeyStep \/ Resize

SelectSpec == SelectInit /\ [][SelectNext]_vars

\* The scenario of a list of 100 items on a surface of 14 rows
\* (visible_rows = 10) that is not resized.
ScenarioInit ==
    /\ SelectCalled([i \in 1..100 |-> i], 14)
    /\ RenderIdle
    /\ ProgressIdle
    /\ AggregatorIdle
    /\ WorkflowIdle

ScenarioNext == Enter \/ Redraw \/ KeyStep

ScenarioSpec == ScenarioInit /\ [][ScenarioNext]_vars

\* ------------------------------------------------- claims on the selector
InLoop == pc \in {"draw", "getch"}

\* visible_rows of the running call (line 383).
VisibleRows == height - 4

SelectionInvariant ==
    /\ 0 <= selected_idx /\ selected_idx < Len(items)
    /\ 0 <= top_line /\ top_line <= selected_idx
    /\ selected_idx < top_line + VisibleRows

\* C1: on a non-empty list with visible_rows >= 1, after every transition of
\* a sequence of up/down keys from selected_idx = top_line = 0 the state has
\* 0 <= selected_idx < len(items), 0 <= top_line <= selected_idx and
\* selected_idx < top_line + visible_rows.
C1_UpDownKeepsInvariant ==
    (InLoop /\ updownOnly /\ VisibleRows >= 1) => SelectionInvariant

\* A run of down keys has scrolled the viewport, and an up key followed.
C1_Witness ==
    /\ InLoop /\ updownOnly /\ VisibleRows >= 1
    /\ lastKey \in UpKeys /\ top_line > 0 /\ selected_idx = top_line

\* C2 as stated: 9 page-downs on 100 items with visible_rows = 10 end in
\* selected_idx = 90 and top_line = 90.
C2_Original ==
    npageRun = 9 => (selected_idx = 90 /\ top_line = 90)

\* C2 as amended: 9 page-downs on 100 items with visible_rows = 10 end in
\* selected_idx = 90 and top_line = 81, the least top that shows row 90.
C2_NinePageDowns ==
    npageRun = 9 => (selected_idx = 90 /\ top_line = 81)

\* The ninth page-down has been handled.
C2_Witness ==
    npageRun = 9 /\ Len(items) = 100 /\ max_lines = 10 /\ pc = "draw"

\* C3: called with an empty list, scrollable_select returns -1 having read
\* no key and drawn nothing.
C3_EmptyListCancels ==
    (pc = "done" /\ items = <<>>) =>
        (result = -1 /\ ~keyRead /\ ~drawn)

\* The call on an empty list has returned.
C3_Witness == pc = "done" /\ items = <<>> /\ result = -1

\* C4: with visible_rows >= 1, a home key gives top_line = 0 and
\* selected_idx = 0, and an end key right after it gives
\* top_line = max(0, N - V) and selected_idx = N - 1.
C4_HomeThenEnd ==
    /\ (InLoop /\ VisibleRows >= 1 /\ lastKey = "KEY_HOME") =>
           (top_line = 0 /\ selected_idx = 0)
    /\ (InLoop /\ VisibleRows >= 1 /\ lastKey = "KEY_END" /\ prevHome) =>
           /\ top_line = Max(0, Len(items) - VisibleRows)
           /\ selected_idx = Len(items) - 1

\* End right after home, on a list longer than the viewport.
C4_Witness ==
    /\ InLoop /\ VisibleRows >= 1 /\ lastKey = "KEY_END" /\ prevHome
    /\ top_line > 0

\* C17: on a non-empty list with visible_rows >= 1, whatever navigation keys
\* were pressed (up, down, page-up, page-down, home, end, in any mix), the
\* state has 0 <= top_line <= selected_idx < len(items) and
\* selected_idx < top_line + visible_rows.
C17_AllKeysKeepInvariant ==
    (InLoop /\ items # <<>> /\ VisibleRows >= 1) =>
        /\ 0 <= top_line /\ top_line <= selected_idx
        /\ selected_idx < Len(items)
        /\ selected_idx < top_line + VisibleRows

\* Page and end keys have been mixed with the others, and a page-up has
\* just pulled a scrolled viewport back up with the selection.
C17_Witness ==
    /\ InLoop /\ VisibleRows >= 2 /\ ~updownOnly
    /\ lastKey = "KEY_PPAGE" /\ top_line > 0 /\ selected_idx = top_line
    /\ Len(items) > VisibleRows

\* C18 as stated: on a non-empty list the selector keeps
\* 0 <= top_line <= selected_idx < len(items) after every navigation key on
\* a surface of any height, those of 4 rows or fewer included.
C18_AnyHeightKeepsIndices ==
    (InLoop /\ items # <<>>) =>
        /\ 0 <= top_line /\ top_line <= selected_idx
        /\ selected_idx < Len(items)

\* C11 as stated: every redraw takes visible_rows from the height the surface
\* has at that redraw, so after a resize the next redraw uses the new height
\* and not the one read when the call started.
C11_RedrawUsesCurrentHeight ==
    [][Redraw => max_lines' = surfHeight - 4]_vars

\* C16 as stated: a key that is none of quit, escape, confirm, up, down,
\* page-up, page-down, home and end changes neither selected_idx nor
\* top_line and does not end the call; the call returns only on quit or
\* escape, with -1, or on confirm, with selected_idx, which then is an index
\* of the list.
C16_OtherKeysIgnored ==
    [][/\ (pc = "getch" /\ lastKey' \in OtherKeys) =>
             (selected_idx' = selected_idx /\ top_line' = top_line
                /\ pc' = "draw")
       /\ (pc = "getch" /\ pc' = "done") =>
             \/ lastKey' \in CancelKeys /\ result' = -1
             \/ /\ lastKey' \in ConfirmKeys
                /\ result' = selected_idx
                /\ result' \in 0..(Len(items) - 1)]_vars

\* C26: in every state of the selection loop with visible_rows = V >= 1 on
\* a list of N items, top_line <= max(0, N - V), and what a redraw shows is
\* min(N, V) items: with at least V items every row of the viewport holds
\* one, whatever keys were pressed.
C26_NoBlankRowsBelowLast ==
    (InLoop /\ items # <<>> /\ VisibleRows >= 1) =>
        /\ top_line <= Max(0, Len(items) - VisibleRows)
        /\ Len(items) >= VisibleRows =>
              \A r \in top_line..(top_line + VisibleRows - 1) :
                  r \in 0..(Len(items) - 1)
        /\ pc = "getch" =>
              Len(visible_items) = Min(Len(items), VisibleRows)

\* A list longer than the viewport has been scrolled to its end by page-down
\* and redrawn: the last row of the viewport shows the last item.
C26_Witness ==
    /\ pc = "getch" /\ VisibleRows >= 2 /\ Len(items) > VisibleRows
    /\ lastKey = "KEY_NPAGE"
    /\ selected_idx = Len(items) - 1
    /\ top_line = Len(items) - VisibleRows
    /\ Len(visible_items) = VisibleRows

\* --------------------------------------------------------------- safe_addstr
NL == "\n"
Chars == {"a", "b", NL}

\* Every sequence over S of at most n elements.
SeqsUpTo(S, n) == UNION {[1..k -> S] : k \in 0..n}

Texts == SeqsUpTo(Chars, MaxTextLen)
Widths == 0..MaxWidth

\* The index of the first line break of t, 0 when it has none.
FirstBreak(t) ==
    IF \E i \in 1..Len(t) : t[i] = NL
    THEN CHOOSE i \in 1..Len(t) : t[i] = NL /\ \A j \in 1..(i - 1) : t[j] # NL
    ELSE 0

\* str.splitlines() of line 111, for texts whose only line break is "\n":
\* a final line break opens no further line.
RECURSIVE SplitLines(_)
SplitLines(t) ==
    IF t = <<>> THEN <<>>
    ELSE LET i == FirstBreak(t)
         IN  IF i = 0 THEN <<t>>
             ELSE <<SubSeq(t, 1, i - 1)>> \o SplitLines(SubSeq(t, i + 1, Len(t)))

RenderIdleFrame == UNCHANGED NotRenderer

RenderInit ==
    /\ rpc = "call"
    /\ text \in Texts
    /\ wrap \in BOOLEAN
    /\ start_newline \in BOOLEAN
    /\ width \in Widths
    /\ lines = <<>> /\ line = <<>> /\ writes = <<>>
    /\ rejected = 0 /\ refreshed = FALSE
    /\ SelectIdle
    /\ ProgressIdle
    /\ AggregatorIdle
    /\ WorkflowIdle

\* Lines 108-111: the geometry was read into width; split the text.
RenderCall ==
    /\ rpc = "call"
    /\ lines' = SplitLines(text)
    /\ rpc' = "for"
    /\ UNCHANGED <<text, wrap, start_newline, width, line, writes, rejected,
                   refreshed>>
    /\ RenderIdleFrame

\* Lines 111-113: the next line of the for loop, or the loop's end.
NextLine ==
    /\ rpc = "for"
    /\ IF lines = <<>>
       THEN /\ rpc' = "tail"
            /\ UNCHANGED <<lines, line>>
       ELSE /\ line' = Head(lines)
            /\ lines' = Tail(lines)
            /\ rpc' = IF wrap THEN "while" ELSE "else"
    /\ UNCHANGED <<text, wrap, start_newline, width, writes, rejected,
                   refreshed>>
    /\ RenderIdleFrame

\* AddStr with no except clause around it: a rejected write propagates.
AddStrUncaught(str, next) ==
    /\ Len(writes) < MaxWrites
    /\ writes' = Append(writes, str)
    /\ \E ok \in BOOLEAN :
          IF ok THEN rejected' = rejected /\ rpc' = next
          ELSE rejected' = rejected + 1 /\ rpc' = "raised"

\* try: stdscr.addstr(str) except curses.error: pass (lines 117-120, 123-126,
\* 131-134, 137-140). Whether the surface accepts the write is the
\* surface's answer; a rejected write is swallowed.
AddStr(str, next) ==
    /\ Len(writes) < MaxWrites
    /\ writes' = Append(writes, str)
    /\ \E ok \in BOOLEAN : rejected' = IF ok THEN rejected ELSE rejected + 1
    /\ rpc' = next

\* WrapSegment cutting segments one character too long.
WrapSegmentWide ==
    /\ rpc = "while"
    /\ Len(line) > width + 1
    /\ AddStr(PySlice(line, 0, width + 1) \o <<NL>>, "while")
    /\ line' = PySlice(line, width + 1, Len(line))
    /\ UNCHANGED <<text, wrap, start_newline, width, lines, refreshed>>
    /\ RenderIdleFrame

\* Lines 115-121: one round of the while loop.
WrapSegment ==
    /\ rpc = "while"
    /\ Len(line) > width
    /\ AddStr(PySlice(line, 0, width) \o <<NL>>, "while")
    /\ line' = PySlice(line, width, Len(line))
    /\ UNCHANGED <<text, wrap, start_newline, width, lines, refreshed>>
    /\ RenderIdleFrame

\* WrapRest writing the line break alone, without the remainder.
WrapRestDropped ==
    /\ rpc = "while"
    /\ ~(Len(line) > width)
    /\ AddStr(<<NL>>, "for")
    /\ UNCHANGED <<text, wrap, start_newline, width, lines, line, refreshed>>
    /\ RenderIdleFrame

\* Lines 122-126: the while loop is over, the remainder is written.
WrapRest ==
    /\ rpc = "while"
    /\ ~(Len(line) > width)
    /\ AddStr(line \o <<NL>>, "for")
    /\ UNCHANGED <<text, wrap, start_newline, width, lines, line, refreshed>>
    /\ RenderIdleFrame

\* Truncate keeping width characters of a long line.
TruncateAtWidth ==
    /\ rpc = "else"
    /\ LET cut == IF Len(line) > width
                  THEN PySlice(line, 0, width) ELSE line
       IN  /\ line' = cut
           /\ AddStr(cut, "for")
    /\ UNCHANGED <<text, wrap, start_newline, width, lines, refreshed>>
    /\ RenderIdleFrame

\* Lines 127-134: wrap is false.
Truncate ==
    /\ rpc = "else"
    /\ LET cut == IF Len(line) > width
                  THEN PySlice(line, 0, width - 1) ELSE line
       IN  /\ line' = cut
           /\ AddStr(cut, "for")
    /\ UNCHANGED <<text, wrap, start_newline, width, lines, refreshed>>
    /\ RenderIdleFrame

\* Lines 136-140.
TrailingNewline ==
    /\ rpc = "tail"
    /\ IF start_newline
       THEN AddStr(<<NL>>, "refresh")
       ELSE rpc' = "refresh" /\ UNCHANGED <<writes, rejected>>
    /\ UNCHANGED <<text, wrap, start_newline, width, lines, line, refreshed>>
    /\ RenderIdleFrame

\* Line 142.
Refresh ==
    /\ rpc = "refresh"
    /\ refreshed' = TRUE
    /\ rpc' = "done"
    /\ UNCHANGED <<text, wrap, start_newline, width, lines, line, writes,
                   rejected>>
    /\ RenderIdleFrame

RenderNext ==
    \/ RenderCall \/ NextLine \/ WrapSegment \/ WrapRest \/ Truncate
    \/ TrailingNewline \/ Refresh

RenderSpec == RenderInit /\ [][RenderNext]_vars

\* ------------------------------------------------- claims on the renderer
\* The length of the longest run of characters of w without a line break.
RECURSIVE LongestLine(_)
LongestLine(w) ==
    IF w = <<>> THEN 0
    ELSE LET i == FirstBreak(w)
         IN  IF i = 0 THEN Len(w)
             ELSE Max(i - 1, LongestLine(SubSeq(w, i + 1, Len(w))))

\* C5: with wrap = true and a surface width >= 1, no string handed to the
\* surface holds a line (a run between line breaks) longer than width.
C5_WrapNeverExceedsWidth ==
    (wrap /\ width >= 1) =>
        \A k \in 1..Len(writes) : LongestLine(writes[k]) <= width

\* A line longer than the width has been written out in full, in more than
\* one segment.
C5_Witness ==
    /\ wrap /\ width >= 1 /\ rpc = "done"
    /\ \E k \in 1..Len(SplitLines(text)) : Len(SplitLines(text)[k]) > width
    /\ Len(writes) >= 3

\* C7: a write the surface rejects never leaves safe_addstr as a failure:
\* the call goes on through every line, runs the final refresh and returns,
\* with wrap true or false and for the trailing newline.
C7_RejectedWritesSwallowed ==
    /\ rpc # "raised"
    /\ rpc = "done" =>
          /\ refreshed
          /\ lines = <<>>
          /\ start_newline => writes[Len(writes)] = <<NL>>

\* Every write of a call was rejected, the trailing newline included, and
\* the call has returned.
C7_Witness ==
    /\ rpc = "done" /\ refreshed /\ start_newline
    /\ rejected = Len(writes) /\ rejected >= 2

\* C14: with wrap = false and a surface width >= 1, each line of the text is
\* written as one piece, its first width - 1 characters when it is longer
\* than width and the whole line otherwise, and nothing else is written but
\* the trailing newline.
C14_NoWrapOnePiecePerLine ==
    (rpc = "done" /\ ~wrap /\ width >= 1) =>
        LET split == SplitLines(text)
            piece == [k \in 1..Len(split) |->
                        IF Len(split[k]) > width
                        THEN SubSeq(split[k], 1, width - 1) ELSE split[k]]
        IN  writes = piece \o (IF start_newline THEN << <<NL>> >> ELSE <<>>)

\* A text whose first line is longer than a width of 2 or more has been
\* written without wrapping, cut to a piece that is not empty.
C14_Witness ==
    /\ rpc = "done" /\ ~wrap /\ width >= 2
    /\ SplitLines(text) # <<>> /\ Len(SplitLines(text)[1]) > width
    /\ Len(writes[1]) = width - 1

RECURSIVE Flatten(_)
Flatten(q) == IF q = <<>> THEN <<>> ELSE Head(q) \o Flatten(Tail(q))

\* The writes ws are segments of the line l, each followed by a line break:
\* together they spell l, all but the last have w characters and the last
\* has at most w.
SegmentsOf(ws, l, w) ==
    /\ ws # <<>>
    /\ \A k \in 1..Len(ws) : ws[k] # <<>> /\ ws[k][Len(ws[k])] = NL
    /\ LET seg == [k \in 1..Len(ws) |-> SubSeq(ws[k], 1, Len(ws[k]) - 1)]
       IN  /\ Flatten(seg) = l
           /\ \A k \in 1..(Len(ws) - 1) : Len(seg[k]) = w
           /\ Len(seg[Len(ws)]) <= w

\* The writes ws fall into one run of segments for each line of ls, in the
\* order of the lines.
RECURSIVE SegmentsOfLines(_, _, _)
SegmentsOfLines(ws, ls, w) ==
    IF ls = <<>> THEN ws = <<>>
    ELSE \E n \in 1..Len(ws) :
            /\ SegmentsOf(SubSeq(ws, 1, n), Head(ls), w)
            /\ SegmentsOfLines(SubSeq(ws, n + 1, Len(ws)), Tail(ls), w)

\* C25: with wrap = true and width >= 1, the writes of a call that has
\* returned are, line by line of the text, segments that spell the line in
\* the order written, every segment but the last of exactly width
\* characters and the last of 0 to width; the one write besides them is the
\* trailing newline.
C25_WrapLosesNoCharacter ==
    (rpc = "done" /\ wrap /\ width >= 1) =>
        LET body == IF start_newline
                    THEN SubSeq(writes, 1, Len(writes) - 1) ELSE writes
        IN  /\ start_newline => writes[Len(writes)] = <<NL>>
            /\ SegmentsOfLines(body, SplitLines(text), width)

\* A text of two lines, the first of two characters, has been written at
\* width 1 in three segments.
C25_Witness ==
    /\ rpc = "done" /\ wrap /\ width = 1 /\ ~start_newline
    /\ Len(SplitLines(text)) = 2 /\ Len(SplitLines(text)[1]) = 2
    /\ Len(writes) = 3

\* --------------------------------------------------------- the surface
\* stdscr.move(y, x): curses.error when (y, x) is outside the window.
Move(sf, y, x) ==
    IF sf.err THEN sf
    ELSE IF y < 0 \/ y >= sf.h \/ x < 0 \/ x >= sf.w
         THEN [sf EXCEPT !.err = TRUE]
         ELSE [sf EXCEPT !.y = y, !.x = x]

\* stdscr.clrtoeol(): the cursor's row is blank from the cursor on.
ClrToEol(sf) ==
    IF sf.err THEN sf
    ELSE [sf EXCEPT !.rows[sf.y] = SubSeq(@, 1, Min(Len(@), sf.x))]

\* One character written at the cursor, which then moves right, or to the
\* start of the next row; in the last cell of the window it cannot move
\* and the write ends in curses.error.
PutChar(sf, ch) ==
    LET row    == sf.rows[sf.y]
        padded == row \o [i \in 1..(sf.x + 1 - Len(row)) |-> " "]
        put    == [sf EXCEPT !.rows[sf.y] = [padded EXCEPT ![sf.x + 1] = ch]]
    IN  IF sf.x < sf.w - 1 THEN [put EXCEPT !.x = sf.x + 1]
        ELSE IF sf.y < sf.h - 1 THEN [put EXCEPT !.y = sf.y + 1, !.x = 0]
        ELSE [put EXCEPT !.err = TRUE]

\* stdscr.addstr(str), str without line breaks.
RECURSIVE WriteStr(_, _)
WriteStr(sf, str) ==
    IF sf.err \/ str = <<>> THEN sf
    ELSE WriteStr(PutChar(sf, Head(str)), Tail(str))

\* stdscr.clear().
Clear(sf) == BlankSurface(sf.h, sf.w)

\* ---------------------------------------------------------- draw_progress_bar
DefaultBarLength == 40

Digit == <<"0", "1", "2", "3", "4", "5", "6", "7", "8", "9">>

\* str(n) for an integer n >= 0.
RECURSIVE IntToStr(_)
IntToStr(n) ==
    IF n < 10 THEN <<Digit[n + 1]>>
    ELSE Append(IntToStr(n \div 10), Digit[(n % 10) + 1])

\* ch * n: n copies of ch, none when n <= 0.
Repeat(ch, n) == [i \in 1..n |-> ch]

\* Line 160.
FilledLength(current, total, bar_length) ==
    ScaledPart(bar_length, current, total)

\* Bar with one filled glyph too few.
BarOneShort(filled_length, bar_length) ==
    Repeat("=", filled_length - 1)
        \o Repeat("-", bar_length - (filled_length - 1))

\* Line 161.
Bar(filled_length, bar_length) ==
    Repeat("=", filled_length) \o Repeat("-", bar_length - filled_length)

\* Line 162.
PercentText(current, total) ==
    Append(IntToStr(ScaledPart(100, current, total)), "%")

\* Line 180.
BarLine(bar, percent_text) == <<"[">> \o bar \o <<"]", " ">> \o percent_text

\* Lines 156-162 and 180: the locals of a call.
ProgressLocals(current, total, message, bar_length) ==
    LET filled_length == FilledLength(current, total, bar_length)
        percent_text  == PercentText(current, total)
    IN  [current |-> current, total |-> total, message |-> message,
         bar_length |-> bar_length, filled_length |-> filled_length,
         percent_text |-> percent_text,
         bar_line |-> BarLine(Bar(filled_length, bar_length), percent_text)]

\* ClearRows that clears nothing.
ClearRowsNot(sf, y) == sf

\* Lines 168-170: the rows from y to the last one are cleared.
RECURSIVE ClearRows(_, _)
ClearRows(sf, y) ==
    IF sf.err \/ y >= sf.h THEN sf
    ELSE ClearRows(ClrToEol(Move(sf, y, 0)), y + 1)

\* Lines 154 and 164-186 on the surface sf, given the locals: the surface
\* after the call, with err set when a surface call raised (nothing in the
\* function catches it).
ProgressDraw(sf, loc) ==
    LET bar_y     == sf.h - 3
        cleared   == ClearRows(sf, bar_y)
        truncated == IF Len(loc.message) > sf.w - 1
                     THEN PySlice(loc.message, 0, sf.w - 1) ELSE loc.message
        with_msg  == WriteStr(Move(cleared, bar_y, 0), truncated)
        display   == PySlice(loc.bar_line, 0, sf.w - 1)
    IN  WriteStr(Move(with_msg, bar_y + 1, 0), display)

Rows == 1..MaxRows
Cols == 1..MaxWidth
Counts == 0..MaxTotal
BarLengths == (0..MaxBar) \cup {DefaultBarLength}

\* The messages: the prefixes of "abc...".
Letters == <<"a", "b", "c", "d", "e", "f", "g", "h">>
Messages == {SubSeq(Letters, 1, n) : n \in 0..MaxMessage}

\* A surface on which the rows of `dirty` are full of what was drawn before.
UsedSurface(h, w, dirty) ==
    [BlankSurface(h, w) EXCEPT
        !.rows = [r \in 0..(h - 1) |->
                     IF r \in dirty THEN [c \in 1..w |-> "z"] ELSE <<>>]]

ProgressInit ==
    /\ ppc = "ready"
    /\ \E h \in Rows, w \in Cols :
          \E dirty \in SUBSET (0..(h - 1)) : scr = UsedSurface(h, w, dirty)
    /\ shown = NoCall
    /\ SelectIdle
    /\ RenderIdle
    /\ AggregatorIdle
    /\ WorkflowIdle

\* One call of draw_progress_bar (lines 144-186).
DrawProgressBar ==
    /\ ppc = "ready"
    /\ \E current \in Counts, total \in Counts, message \in Messages,
          bar_length \in BarLengths :
          LET loc   == ProgressLocals(current, total, message, bar_length)
              after == ProgressDraw(scr, loc)
          IN  /\ scr' = after
              /\ ppc' = IF after.err THEN "raised" ELSE "ready"
              /\ shown' = loc
    /\ UNCHANGED NotProgress

ProgressNext == DrawProgressBar

ProgressSpec == ProgressInit /\ [][ProgressNext]_vars

\* ------------------------------- draw_progress_bar as a function of its
\* arguments: one call with 0 <= current <= total, total > 0, on a surface
\* with room for the progress rows.
MaxScaleTotal == 50
MaxScaleBar == 23
ScaleBarLengths == (0..MaxScaleBar) \cup {DefaultBarLength}

ScaleInit ==
    /\ ppc = "call"
    /\ scr = BlankSurface(3, MaxWidth)
    /\ shown = NoCall
    /\ SelectIdle
    /\ RenderIdle
    /\ AggregatorIdle
    /\ WorkflowIdle

\* The call (lines 144-186), and its return.
ScaleCall ==
    /\ ppc = "call"
    /\ \E total \in 1..MaxScaleTotal, bar_length \in ScaleBarLengths :
          \E current \in 0..total :
             LET loc   == ProgressLocals(current, total, <<>>, bar_length)
                 after == ProgressDraw(scr, loc)
             IN  /\ scr' = after
                 /\ ppc' = IF after.err THEN "raised" ELSE "returned"
                 /\ shown' = loc
    /\ UNCHANGED NotProgress

ScaleNext == ScaleCall

ScaleSpec == ScaleInit /\ [][ScaleNext]_vars

\* --------------------------------------- claims on the progress indicator
\* C6: whatever the surface's height and width, fewer than 3 rows
\* included, draw_progress_bar completes and lets no surface error out.
C6_ProgressNeverRaises == ppc # "raised"

\* C15: after any number of calls on a surface of 3 rows or more, row
\* height - 3 is the last message cut to width - 1 characters, row
\* height - 2 the last bar line cut to width - 1 characters and row
\* height - 1 is blank: nothing is left of what the rows held before.
C15_BottomRowsShowLastCall ==
    (ppc = "ready" /\ shown # NoCall /\ scr.h >= 3) =>
        /\ scr.rows[scr.h - 3] =
              SubSeq(shown.message, 1, Min(Len(shown.message), scr.w - 1))
        /\ scr.rows[scr.h - 2] =
              SubSeq(shown.bar_line, 1, Min(Len(shown.bar_line), scr.w - 1))
        /\ scr.rows[scr.h - 1] = <<>>

\* A call with an empty message has drawn on a surface wide enough to show
\* two characters of the bar line.
C15_Witness ==
    /\ ppc = "ready" /\ shown # NoCall /\ scr.h >= 3 /\ scr.w >= 3
    /\ shown.message = <<>> /\ scr.rows[scr.h - 3] = <<>>
    /\ Len(scr.rows[scr.h - 2]) = 2

\* C12: with total = 0 the call makes a bar of bar_length unfilled glyphs
\* and the text 0%; with current = total > 0 it makes a bar of bar_length
\* filled glyphs, no unfilled one, and the text 100%.
C12_FullAndEmptyBars ==
    (ppc = "ready" /\ shown # NoCall) =>
        /\ shown.total = 0 =>
              /\ shown.filled_length = 0
              /\ shown.percent_text = <<"0", "%">>
              /\ shown.bar_line =
                    <<"[">> \o [i \in 1..shown.bar_length |-> "-"]
                        \o <<"]", " ", "0", "%">>
        /\ (shown.total > 0 /\ shown.current = shown.total) =>
              /\ shown.filled_length = shown.bar_length
              /\ shown.percent_text = <<"1", "0", "0", "%">>
              /\ shown.bar_line =
                    <<"[">> \o [i \in 1..shown.bar_length |-> "="]
                        \o <<"]", " ", "1", "0", "0", "%">>

\* A call with current = total > 0 and the default bar of 40 glyphs has
\* drawn.
C12_Witness ==
    /\ ppc = "ready" /\ shown.total > 0 /\ shown.current = shown.total
    /\ shown.bar_length = DefaultBarLength /\ shown.filled_length = 40
    /\ scr.h >= 3

\* C23 as stated: for 0 <= current <= total, total > 0 and bar_length >= 0
\* the bar has floor(bar_length * current / total) filled glyphs followed
\* by unfilled ones, bar_length glyphs in all, and the percentage shown is
\* floor(100 * current / total).
C23_FloorOfExactRatio ==
    ppc = "returned" =>
        LET filled  == (shown.bar_length * shown.current) \div shown.total
            percent == (100 * shown.current) \div shown.total
        IN  /\ shown.filled_length = filled
            /\ shown.bar_line =
                  <<"[">> \o [i \in 1..filled |-> "="]
                      \o [i \in 1..(shown.bar_length - filled) |-> "-"]
                      \o <<"]", " ">> \o IntToStr(percent) \o <<"%">>

\* ------------------------------------- aggregate_trackers_for_each_torrent
Urls == {"t1", "t2"}
Hashes == 1..MaxTorrents

\* The sequences over S without a repeated element.
Distinct(S) ==
    {q \in SeqsUpTo(S, Cardinality(S)) :
        \A i, j \in 1..Len(q) : i # j => q[i] # q[j]}

\* What /torrents/info lists: torrents of distinct hashes, in any order.
TorrentLists ==
    {[i \in 1..Len(q) |-> [hash |-> q[i], name |-> <<"T", Digit[q[i] + 1]>>]] :
        q \in Distinct(Hashes)}

\* What /torrents/trackers answers: a status and, as its JSON body, the
\* trackers' urls.
TrackerLists == SeqsUpTo(Urls, Cardinality(Urls))
Responses ==
    [status : {"200"}, json : TrackerLists]
        \cup [status : {"500", "RequestException"}, json : {<<>>, <<"t1">>}]

\* Lines 346-354.
GetTorrentTrackers(response) ==
    IF response.status = "200" THEN response.json ELSE <<>>

\* url in tracker_map (line 487).
MapHas(map, url) == \E i \in 1..Len(map) : map[i].url = url

\* tracker_map[url], the empty list standing for a missing key.
MapGet(map, url) ==
    IF MapHas(map, url)
    THEN map[CHOOSE i \in 1..Len(map) : map[i].url = url].hashes
    ELSE <<>>

\* MapAppend putting the hash in front of its group.
MapAppendFront(map, url, hash) ==
    LET with_key == IF MapHas(map, url) THEN map
                    ELSE Append(map, [url |-> url, hashes |-> <<>>])
    IN  [i \in 1..Len(with_key) |->
            IF with_key[i].url = url
            THEN [with_key[i] EXCEPT !.hashes = <<hash>> \o @]
            ELSE with_key[i]]

\* MapAppend with the append of line 489 under an else of line 487.
MapAppendElse(map, url, hash) ==
    IF MapHas(map, url)
    THEN [i \in 1..Len(map) |->
            IF map[i].url = url
            THEN [map[i] EXCEPT !.hashes = Append(@, hash)]
            ELSE map[i]]
    ELSE Append(map, [url |-> url, hashes |-> <<>>])

\* Lines 487-489: the key is created when missing, then the hash appended.
MapAppend(map, url, hash) ==
    LET with_key == IF MapHas(map, url) THEN map
                    ELSE Append(map, [url |-> url, hashes |-> <<>>])
    IN  [i \in 1..Len(with_key) |->
            IF with_key[i].url = url
            THEN [with_key[i] EXCEPT !.hashes = Append(@, hash)]
            ELSE with_key[i]]

\* Lines 485-489: the for loop over one torrent's trackers.
RECURSIVE FoldTrackers(_, _, _)
FoldTrackers(map, urls, hash) ==
    IF urls = <<>> THEN map
    ELSE FoldTrackers(MapAppend(map, Head(urls), hash), Tail(urls), hash)

Gathering ==
    <<"G", "a", "t", "h", "e", "r", "i", "n", "g", " ", "t", "r", "a", "c",
      "k", "e", "r", "s", " ", "f", "o", "r", " ", "t", "o", "r", "r", "e",
      "n", "t", " ">>

\* Line 481.
GatheringMessage(i, total, name) ==
    Gathering \o IntToStr(i) \o <<"/">> \o IntToStr(total) \o <<":", " ">>
        \o name

AggregatorInit ==
    /\ apc = "call"
    /\ torrents \in TorrentLists
    /\ idx = 0 /\ tracker_map = <<>> /\ returned = "none"
    /\ lookups = <<>> /\ draws = <<>>
    /\ ppc = "idle" /\ shown = NoCall
    /\ \E h \in Rows : scr = BlankSurface(h, MaxWidth)
    /\ SelectIdle
    /\ RenderIdle
    /\ WorkflowIdle

\* LoopAt leaving the loop one record early.
LoopAtShort(i) == IF i < Len(torrents) THEN "draw" ELSE "return"

\* Where the for loop of line 479 goes with the counter at i.
LoopAt(i) == IF i <= Len(torrents) THEN "draw" ELSE "return"

\* Lines 477-479.
AggCall ==
    /\ apc = "call"
    /\ tracker_map' = <<>>
    /\ idx' = 1
    /\ apc' = LoopAt(1)
    /\ UNCHANGED <<torrents, returned, lookups, draws>>
    /\ UNCHANGED <<scr, ppc, shown>>
    /\ UNCHANGED NotAggregator

\* Lines 480-482: the progress draw for the torrent at idx.
AggDraw ==
    /\ apc = "draw"
    /\ LET total_torrents == Len(torrents)
           message == GatheringMessage(idx, total_torrents,
                                       torrents[idx].name)
           loc   == ProgressLocals(idx, total_torrents, message,
                                   DefaultBarLength)
           after == ProgressDraw(scr, loc)
       IN  /\ scr' = after
           /\ shown' = loc
           /\ draws' = Append(draws, [current |-> idx,
                                      total |-> total_torrents,
                                      completed |-> Len(lookups)])
           /\ apc' = IF after.err THEN "raised" ELSE "lookup"
    /\ UNCHANGED <<torrents, idx, tracker_map, returned, lookups, ppc>>
    /\ UNCHANGED NotAggregator

\* Lines 484-489: the lookup for the torrent at idx, and its trackers
\* folded into the map.
AggLookup ==
    /\ apc = "lookup"
    /\ \E response \in Responses :
          LET torrent_trackers == GetTorrentTrackers(response)
          IN  /\ lookups' = Append(lookups, torrent_trackers)
              /\ tracker_map' = FoldTrackers(tracker_map, torrent_trackers,
                                             torrents[idx].hash)
    /\ idx' = idx + 1
    /\ apc' = LoopAt(idx + 1)
    /\ UNCHANGED <<torrents, returned, draws>>
    /\ UNCHANGED <<scr, ppc, shown>>
    /\ UNCHANGED NotAggregator

\* Lines 491-492.
AggReturn ==
    /\ apc = "return"
    /\ scr' = Clear(scr)
    /\ returned' = tracker_map
    /\ apc' = "done"
    /\ UNCHANGED <<torrents, idx, tracker_map, lookups, draws, ppc, shown>>
    /\ UNCHANGED NotAggregator

AggregatorNext == AggCall \/ AggDraw \/ AggLookup \/ AggReturn

AggregatorSpec == AggregatorInit /\ [][AggregatorNext]_vars

\* ----------------------------------------------- claims on the aggregator
\* C8 as stated: the draw that reports current = i comes only after the
\* lookup for the i-th record has returned, so total/total is never shown
\* before the last lookup has returned.
C8_DrawAfterLookup ==
    apc # "raised" =>
        \A k \in 1..Len(draws) : draws[k].completed >= draws[k].current

\* How often url occurs in the list l.
Occurrences(l, url) == Cardinality({i \in 1..Len(l) : l[i] = url})

\* The hashes of the first n records, in input order, each as often as its
\* lookup returned url.
RECURSIVE ExpectedGroup(_, _)
ExpectedGroup(url, n) ==
    IF n = 0 THEN <<>>
    ELSE ExpectedGroup(url, n - 1)
            \o [i \in 1..Occurrences(lookups[n], url) |-> torrents[n].hash]

\* C9: the sequence returned under a key lists the hashes of the records
\* whose lookup returned that key, in the records' input order.
C9_GroupsKeepInputOrder ==
    apc = "done" =>
        \A url \in Urls :
            MapGet(returned, url) = ExpectedGroup(url, Len(torrents))

\* Two records, handed over in the reverse of their hashes' order, share a
\* key.
C9_Witness ==
    /\ apc = "done"
    /\ \E url \in Urls :
          /\ Len(MapGet(returned, url)) >= 2
          /\ MapGet(returned, url)[1] > MapGet(returned, url)[2]

\* The sum of the lengths of the sequences of q.
RECURSIVE TotalLen(_)
TotalLen(q) == IF q = <<>> THEN 0 ELSE Len(Head(q)) + TotalLen(Tail(q))

\* C10: the returned map has exactly the keys that some lookup returned,
\* each once and with a non-empty sequence, and the lengths of its
\* sequences add up to the number of children over all lookups.
C10_KeysAndSizes ==
    apc = "done" =>
        /\ {returned[i].url : i \in 1..Len(returned)} =
              {url \in Urls : \E n \in 1..Len(lookups) :
                                 Occurrences(lookups[n], url) > 0}
        /\ \A i, j \in 1..Len(returned) :
              i # j => returned[i].url # returned[j].url
        /\ \A i \in 1..Len(returned) : returned[i].hashes # <<>>
        /\ TotalLen([i \in 1..Len(returned) |-> returned[i].hashes]) =
              TotalLen(lookups)
        /\ Len(lookups) = Len(torrents)

\* Three records with children [t1, t2], [t1] and none give
\* {t1: [p1, p2], t2: [p1]}.
C10_Witness ==
    /\ apc = "done"
    /\ Len(torrents) = 3
    /\ lookups = << <<"t1", "t2">>, <<"t1">>, <<>> >>
    /\ returned = << [url |-> "t1", hashes |-> <<torrents[1].hash,
                                                torrents[2].hash>>],
                     [url |-> "t2", hashes |-> <<torrents[1].hash>>] >>

\* ------------------------------------------- remove_tracker and add_tracker
\* The code points of the urls' characters, by which Python compares str.
CodePoints == [u \in Urls |-> IF u = "t1" THEN <<116, 49>> ELSE <<116, 50>>]

\* a < b for two strings given by their code points.
RECURSIVE LexLess(_, _)
LexLess(a, b) ==
    IF b = <<>> THEN FALSE
    ELSE IF a = <<>> THEN TRUE
    ELSE IF Head(a) # Head(b) THEN Head(a) < Head(b)
    ELSE LexLess(Tail(a), Tail(b))

StrLess(u, v) == LexLess(CodePoints[u], CodePoints[v])

\* tracker_map.keys(): the keys in insertion order.
Keys(map) == [i \in 1..Len(map) |-> map[i].url]

\* k put into the sorted list s, behind the elements that are not greater.
RECURSIVE SortedInsert(_, _)
SortedInsert(s, k) ==
    IF s = <<>> THEN <<k>>
    ELSE IF StrLess(k, Head(s)) THEN <<k>> \o s
    ELSE <<Head(s)>> \o SortedInsert(Tail(s), k)

\* Sorted leaving the keys as they come.
Unsorted(q) == q

\* sorted(q) (lines 528 and 640).
RECURSIVE Sorted(_)
Sorted(q) ==
    IF q = <<>> THEN <<>>
    ELSE SortedInsert(Sorted(SubSeq(q, 1, Len(q) - 1)), q[Len(q)])

\* Lines 529-532 and 641-644: the line "{i}. {url} - Found in {n} torrents"
\* as the triple of what it is made of.
TrackerLines(keys, map) ==
    [i \in 1..Len(keys) |->
        [no |-> i, url |-> keys[i], found |-> Len(MapGet(map, keys[i]))]]

\* str.strip() and str.rstrip("/") on a string given by its characters.
RECURSIVE LStrip(_, _)
LStrip(s, ch) ==
    IF s # <<>> /\ Head(s) = ch THEN LStrip(Tail(s), ch) ELSE s

RECURSIVE RStrip(_, _)
RStrip(s, ch) ==
    IF s # <<>> /\ s[Len(s)] = ch THEN RStrip(SubSeq(s, 1, Len(s) - 1), ch)
    ELSE s

Strip(s) == RStrip(LStrip(s, " "), " ")

\* str.lower() on the letters the answers are made of.
LowerChar(ch) ==
    CASE ch = "Y" -> "y" [] ch = "E" -> "e" [] ch = "S" -> "s"
      [] ch = "N" -> "n" [] ch = "O" -> "o" [] OTHER -> ch

Lower(s) == [i \in 1..Len(s) |-> LowerChar(s[i])]

\* What the operator types at a prompt (stdscr.getstr).
Answers ==
    { <<"y">>, <<"Y", "E", "S">>, <<" ", "y", "e", "s", " ">>, <<"n">>,
      <<"N", "o">>, <<"x">>, <<>> }

UrlInputs ==
    { <<>>, <<"n">>, <<"h", ":">>, <<"/", "/", "n">>,
      <<"h", ":", "/", "/", "n">>, <<"h", ":", "/", "/", "n", "/", "/">>,
      <<" ", "h", ":", "/", "/", "n", "/", "h">> }

\* Line 56: what prompt returns of the typed characters.
Prompt(typed) == Strip(typed)

\* The position of the first ch in s, 0 when there is none.
FirstAt(s, ch) ==
    IF \E i \in 1..Len(s) : s[i] = ch
    THEN CHOOSE i \in 1..Len(s) :
            s[i] = ch /\ \A j \in 1..(i - 1) : s[j] # ch
    ELSE 0

\* urlparse on a string of the characters h, n, ":" and "/": the scheme is
\* what precedes the first colon when that is letters only, the netloc what
\* follows "//" up to the next slash.
UrlParse(u) ==
    LET colon  == FirstAt(u, ":")
        scheme == IF colon > 1 /\ \A i \in 1..(colon - 1) : u[i] \in {"h", "n"}
                  THEN SubSeq(u, 1, colon - 1) ELSE <<>>
        rest   == IF scheme # <<>> THEN SubSeq(u, colon + 1, Len(u)) ELSE u
        after  == SubSeq(rest, 3, Len(rest))
        slash  == FirstAt(after, "/")
        netloc == IF Len(rest) >= 2 /\ rest[1] = "/" /\ rest[2] = "/"
                  THEN (IF slash = 0 THEN after
                        ELSE SubSeq(after, 1, slash - 1))
                  ELSE <<>>
    IN  [scheme |-> scheme, netloc |-> netloc]

\* Lines 200-211.
ValidateUrl(input_url) ==
    /\ input_url # <<>>
    /\ UrlParse(input_url).scheme # <<>>
    /\ UrlParse(input_url).netloc # <<>>

\* Lines 225-240 on an input that validate_url accepts.
NormalizeUrl(input_url) == RStrip(input_url, "/")

\* The torrents of the workflows' runs: all but the last hash.
FetchedLists ==
    {q \in TorrentLists : \A i \in 1..Len(q) : q[i].hash < MaxTorrents}

\* The surfaces of the workflows' runs: too low for the progress rows, too
\* low for a row of the list, and with room for one row of it.
WorkflowHeights == {2, 3, 5}

\* What the server answers to /torrents/info (line 446).
InfoResponses ==
    [status : {"200"}, json : FetchedLists]
        \cup [status : {"500", "RequestException"}, json : {<<>>}]

\* What it answers to removeTrackers and addTrackers.
PostResponses == {"200", "409", "RequestException"}

Removing ==
    <<"R", "e", "m", "o", "v", "i", "n", "g", " ", "t", "r", "a", "c", "k",
      "e", "r", " ", "f", "r", "o", "m", " ", "t", "o", "r", "r", "e", "n",
      "t", " ">>

Adding ==
    <<"A", "d", "d", "i", "n", "g", " ", "t", "r", "a", "c", "k", "e", "r",
      " ", "f", "r", "o", "m", " ", "t", "o", "r", "r", "e", "n", "t", " ">>

\* Lines 568 and 696.
MutateMessage(o, i, total) ==
    (IF o = "remove" THEN Removing ELSE Adding)
        \o IntToStr(i) \o <<"/">> \o IntToStr(total)

WorkflowInit ==
    /\ wpc = "call"
    /\ op \in {"remove", "add"}
    /\ trackers = <<>> /\ tracker_lines = <<>> /\ choice_idx = -1
    /\ selected_tracker = "" /\ associated_torrents = <<>>
    /\ tracker_to_add = <<>> /\ widx = 0
    /\ posts = <<>> /\ first_failure = 0 /\ notice = "none"
    /\ confirmation = <<>>
    /\ ppc = "idle" /\ shown = NoCall
    /\ \E h \in WorkflowHeights : scr = BlankSurface(h, MaxWidth)
    /\ SelectIdle
    /\ RenderIdle
    /\ AggregatorIdle

\* Lines 502-519 and 614-631: the torrents are fetched, and with at least
\* one the aggregator is called. A status other than 200 makes
\* fetch_all_torrent_info return None, of which line 508 takes len().
WfFetch ==
    /\ wpc = "call"
    /\ scr' = Clear(scr)
    /\ \E response \in InfoResponses :
          CASE response.status = "RequestException" ->
                  /\ notice' = "error"
                  /\ wpc' = "done"
                  /\ UNCHANGED aggVars
            [] response.status = "500" ->
                  /\ notice' = "fetch_error"
                  /\ wpc' = "raised"
                  /\ UNCHANGED aggVars
            [] response.status = "200" /\ response.json = <<>> ->
                  /\ notice' = "no_torrents"
                  /\ wpc' = "done"
                  /\ UNCHANGED aggVars
            [] OTHER ->
                  /\ notice' = "total"
                  /\ wpc' = "aggregate"
                  /\ apc' = "call"
                  /\ torrents' = response.json
                  /\ UNCHANGED <<idx, tracker_map, returned, lookups, draws>>
    /\ UNCHANGED first_failure
    /\ UNCHANGED <<op, trackers, tracker_lines, choice_idx, selected_tracker,
                   associated_torrents, tracker_to_add, widx, posts,
                   confirmation>>
    /\ UNCHANGED <<ppc, shown>>
    /\ UNCHANGED <<selVars, renVars>>

\* Lines 519-537 and 631-648: the aggregator has returned (or raised); the
\* keys are sorted, the lines made and the selector called.
WfAggregated ==
    /\ wpc = "aggregate"
    /\ apc \in {"done", "raised"}
    /\ IF apc = "raised"
       THEN /\ wpc' = "raised"
            /\ UNCHANGED <<trackers, tracker_lines, notice>>
            /\ UNCHANGED aggVars
            /\ UNCHANGED selVars
       ELSE /\ apc' = "idle" /\ torrents' = <<>> /\ idx' = 0
            /\ tracker_map' = <<>> /\ lookups' = <<>> /\ draws' = <<>>
            /\ UNCHANGED returned
            /\ IF returned = <<>>
               THEN /\ notice' = "no_trackers"
                    /\ wpc' = "done"
                    /\ UNCHANGED <<trackers, tracker_lines>>
                    /\ UNCHANGED selVars
               ELSE /\ trackers' = Sorted(Keys(returned))
                    /\ tracker_lines' = TrackerLines(trackers', returned)
                    /\ wpc' = "select"
                    /\ pc' = "call"
                    /\ items' = tracker_lines'
                    /\ surfHeight' = scr.h
                    /\ UNCHANGED <<height, max_lines, selected_idx, top_line,
                                   visible_items, result, keyRead, drawn,
                                   lastKey, prevHome, updownOnly, npageRun>>
                    /\ UNCHANGED notice
    /\ UNCHANGED first_failure
    /\ UNCHANGED <<op, choice_idx, selected_tracker, associated_torrents,
                   tracker_to_add, widx, posts, confirmation>>
    /\ UNCHANGED progVars
    /\ UNCHANGED renVars

\* Lines 535-554 and 648-665: the selector has returned.
WfSelected ==
    /\ wpc = "select"
    /\ pc = "done"
    /\ choice_idx' = result
    /\ pc' = "idle" /\ items' = <<>> /\ surfHeight' = 1 /\ height' = 0
    /\ max_lines' = 0 /\ selected_idx' = 0 /\ top_line' = 0
    /\ visible_items' = <<>> /\ result' = "none"
    /\ keyRead' = FALSE /\ drawn' = FALSE /\ lastKey' = "none"
    /\ prevHome' = FALSE /\ updownOnly' = TRUE /\ npageRun' = 0
    /\ IF result < 0
       THEN /\ notice' = "canceled"
            /\ wpc' = "done"
            /\ UNCHANGED <<selected_tracker, associated_torrents, scr>>
       ELSE IF result >= Len(trackers)
       THEN /\ wpc' = "raised"
            /\ UNCHANGED <<selected_tracker, associated_torrents, scr,
                           notice>>
       ELSE /\ selected_tracker' = trackers[result + 1]
            /\ associated_torrents' = MapGet(returned, trackers[result + 1])
            /\ scr' = Clear(scr)
            /\ notice' = "selected"
            /\ wpc' = IF op = "add" THEN "url" ELSE "confirm"
    /\ UNCHANGED first_failure
    /\ UNCHANGED <<op, trackers, tracker_lines, tracker_to_add, widx, posts,
                   confirmation>>
    /\ UNCHANGED <<ppc, shown>>
    /\ UNCHANGED <<aggVars, renVars>>

\* Lines 668-684: the url to add is asked for until one is valid.
WfPromptUrl ==
    /\ wpc = "url"
    /\ \E typed \in UrlInputs :
          LET tracker_user_input == Prompt(typed)
          IN  IF ValidateUrl(tracker_user_input)
              THEN /\ tracker_to_add' = NormalizeUrl(tracker_user_input)
                   /\ scr' = Clear(scr)
                   /\ wpc' = "confirm"
                   /\ UNCHANGED notice
              ELSE /\ notice' = "invalid_url"
                   /\ UNCHANGED <<tracker_to_add, scr, wpc>>
    /\ UNCHANGED first_failure
    /\ UNCHANGED <<op, trackers, tracker_lines, choice_idx, selected_tracker,
                   associated_torrents, widx, posts, confirmation>>
    /\ UNCHANGED <<ppc, shown>>
    /\ UNCHANGED <<selVars, aggVars, renVars>>

\* MutateAt leaving the loop one entry early.
MutateAtShort(i) ==
    IF i < Len(associated_torrents) THEN "mutate" ELSE "finish"

\* Where the for loop of lines 567 and 695 goes with the counter at i.
MutateAt(i) == IF i <= Len(associated_torrents) THEN "mutate" ELSE "finish"

\* Confirmed taking no for an answer.
ConfirmedByAny(answer) ==
    answer \in {<<"y", "e", "s">>, <<"y">>, <<"n", "o">>, <<"n">>}

\* Line 254.
Confirmed(answer) == answer \in {<<"y", "e", "s">>, <<"y">>}

\* Line 256.
Declined(answer) == answer \in {<<"n", "o">>, <<"n">>}

\* is_operation_confirmed (lines 251-267) with lines 557-566 and 685-694:
\* one answer of the operator.
WfConfirm ==
    /\ wpc = "confirm"
    /\ \E typed \in Answers :
          confirmation' = Lower(Strip(Prompt(typed)))
    /\ IF Confirmed(confirmation')
       THEN /\ scr' = Clear(scr)
            /\ widx' = 1
            /\ wpc' = MutateAt(1)
            /\ UNCHANGED notice
       ELSE IF Declined(confirmation')
       THEN /\ notice' = "operation_canceled"
            /\ wpc' = "done"
            /\ UNCHANGED <<scr, widx>>
       ELSE /\ notice' = "invalid_answer"
            /\ UNCHANGED <<scr, widx, wpc>>
    /\ UNCHANGED first_failure
    /\ UNCHANGED <<op, trackers, tracker_lines, choice_idx, selected_tracker,
                   associated_torrents, tracker_to_add, posts>>
    /\ UNCHANGED <<ppc, shown>>
    /\ UNCHANGED <<selVars, aggVars, renVars>>

\* Lines 567-588 and 695-716: one round of the loop, the progress draw and
\* then the request, whose failure is logged and nothing more.
WfMutate ==
    /\ wpc = "mutate"
    /\ LET total_associated == Len(associated_torrents)
           message == MutateMessage(op, widx, total_associated)
           loc   == ProgressLocals(widx, total_associated, message,
                                   DefaultBarLength)
           after == ProgressDraw(scr, loc)
       IN  /\ scr' = after
           /\ shown' = loc
           /\ draws' = Append(draws, [current |-> widx,
                                      total |-> total_associated,
                                      completed |-> Len(posts)])
           /\ IF after.err
              THEN /\ wpc' = "raised"
                   /\ UNCHANGED <<posts, first_failure, widx>>
              ELSE /\ posts' = Append(posts,
                            [endpoint |-> IF op = "remove"
                                          THEN "removeTrackers"
                                          ELSE "addTrackers",
                             hash |-> associated_torrents[widx],
                             urls |-> IF op = "remove"
                                      THEN <<selected_tracker>>
                                      ELSE tracker_to_add])
                   /\ \E status \in PostResponses :
                         first_failure' =
                            IF status # "200" /\ first_failure = 0
                            THEN widx ELSE first_failure
                   /\ widx' = widx + 1
                   /\ wpc' = MutateAt(widx + 1)
    /\ UNCHANGED <<op, trackers, tracker_lines, choice_idx, selected_tracker,
                   associated_torrents, tracker_to_add, notice, confirmation>>
    /\ UNCHANGED <<apc, torrents, idx, tracker_map, returned, lookups, ppc>>
    /\ UNCHANGED <<selVars, renVars>>

\* Lines 591-597 and 718-724.
WfFinish ==
    /\ wpc = "finish"
    /\ scr' = Clear(scr)
    /\ notice' = "completed"
    /\ wpc' = "done"
    /\ UNCHANGED first_failure
    /\ UNCHANGED <<op, trackers, tracker_lines, choice_idx, selected_tracker,
                   associated_torrents, tracker_to_add, widx, posts,
                   confirmation>>
    /\ UNCHANGED <<ppc, shown>>
    /\ UNCHANGED <<selVars, aggVars, renVars>>

WorkflowNext ==
    \/ WfFetch \/ WfAggregated \/ WfSelected \/ WfPromptUrl \/ WfConfirm
    \/ WfMutate \/ WfFinish
    \/ AggCall \/ AggDraw \/ AggLookup \/ AggReturn
    \/ Enter \/ Redraw \/ KeyStep

WorkflowSpec == WorkflowInit /\ [][WorkflowNext]_vars

\* ----------------------------------------------- claims on the workflows
\* C13: the lines handed to the selector carry the map's keys in ascending
\* order of their code points, whatever the order they were inserted in, and
\* the requests issued after a confirm act on the key of the line whose
\* index the selector returned.
C13_LinesSortedAndKeyShown ==
    /\ tracker_lines # <<>> =>
          /\ Len(tracker_lines) = Len(returned)
          /\ {tracker_lines[i].url : i \in 1..Len(tracker_lines)} =
                {returned[i].url : i \in 1..Len(returned)}
          /\ \A i, j \in 1..Len(tracker_lines) :
                i < j => LexLess(CodePoints[tracker_lines[i].url],
                                 CodePoints[tracker_lines[j].url])
          /\ \A i \in 1..Len(tracker_lines) :
                /\ tracker_lines[i].no = i
                /\ tracker_lines[i].found =
                      Len(MapGet(returned, tracker_lines[i].url))
          /\ wpc = "select" => items = tracker_lines
    /\ posts # <<>> =>
          /\ choice_idx \in 0..(Len(tracker_lines) - 1)
          /\ selected_tracker = tracker_lines[choice_idx + 1].url
          /\ \A k \in 1..Len(posts) :
                /\ posts[k].hash = MapGet(returned, selected_tracker)[k]
                /\ op = "remove" => posts[k].urls = <<selected_tracker>>

\* The map got t2 before t1, the first line was chosen, and a request for t1
\* went out.
C13_Witness ==
    /\ posts # <<>> /\ op = "remove"
    /\ Keys(returned) = <<"t2", "t1">>
    /\ choice_idx = 0 /\ selected_tracker = "t1"

\* C19: no removeTrackers or addTrackers request goes out before the
\* operator has answered yes or y: a workflow whose selector returned
\* cancelled, or whose confirmation was answered no or n, returns having
\* issued none.
C19_NoMutateBeforeYes ==
    /\ posts # <<>> =>
          /\ confirmation \in {<<"y", "e", "s">>, <<"y">>}
          /\ choice_idx >= 0
    /\ (wpc = "done" /\ (choice_idx < 0 \/ confirmation \in {<<"n", "o">>,
                                                              <<"n">>})) =>
          posts = <<>>

\* A tracker with torrents was chosen for adding, a url given, and the
\* confirmation answered no: the workflow has returned.
C19_Witness ==
    /\ wpc = "done" /\ op = "add" /\ choice_idx >= 0
    /\ associated_torrents # <<>> /\ tracker_to_add # <<>>
    /\ confirmation = <<"n", "o">> /\ posts = <<>>

\* C20: after the confirmation the loop issues one request for each entry
\* of the selected tracker's list of hashes, in the list's order; a request
\* that fails, by its status or by a network error, does not end the loop;
\* and the completion message is written only after the last request.
C20_OneRequestPerEntry ==
    /\ Len(posts) <= Len(associated_torrents)
    /\ \A k \in 1..Len(posts) :
          /\ posts[k].hash = associated_torrents[k]
          /\ posts[k].endpoint =
                (IF op = "remove" THEN "removeTrackers" ELSE "addTrackers")
          /\ posts[k].urls =
                (IF op = "remove" THEN <<selected_tracker>>
                 ELSE tracker_to_add)
    /\ posts # <<>> =>
          /\ associated_torrents = MapGet(returned, selected_tracker)
          /\ wpc \in {"mutate", "finish", "done"}
    /\ wpc \in {"mutate", "finish"} => Len(posts) = widx - 1
    /\ notice = "completed" =>
          (wpc = "done" /\ Len(posts) = Len(associated_torrents))
    /\ (wpc = "done" /\ Confirmed(confirmation)) =>
          (notice = "completed" /\ Len(posts) = Len(associated_torrents))

\* The first of two or more requests failed, all of them went out, in an
\* order that is not the order of the hashes, and the completion message
\* is on the screen.
C20_Witness ==
    /\ wpc = "done" /\ notice = "completed" /\ first_failure = 1
    /\ Len(posts) >= 2 /\ Len(posts) = Len(associated_torrents)
    /\ posts[1].hash > posts[2].hash

\* ------------------------------------------ claims on the progress calls
\* The list the loop in progress runs over: the torrents until the
\* aggregator has returned, the selected tracker's torrents afterwards.
LoopList == IF apc # "idle" THEN torrents ELSE associated_torrents

\* The loop in progress has run to its end.
LoopOver ==
    \/ wpc = "aggregate" /\ apc \in {"return", "done"}
    \/ wpc = "finish"
    \/ wpc = "done" /\ notice = "completed"

C22_FetchFailureReturns ==
    notice = "fetch_error" =>
        /\ wpc = "done"
        /\ lookups = <<>>
        /\ posts = <<>>

Spec == SelectSpec

====
